---- MODULE Spec2Model ----
(***************************************************************************)
(* Model of the Webmake publish workflow.                                  *)
(*                                                                         *)
(*   - src/route.ts : the POST handler of /api/publish (one invocation is  *)
(*     a small state machine: parse, validate, build archive, branch per   *)
(*     provider, fallback or outbound call, return) and its sha1 helper.   *)
(*   - src/page.tsx : the DemoPage client (generate / publish handlers and *)
(*     the publish buttons).                                               *)
(*                                                                         *)
(* Text is modelled as sequences of UTF-16 code units (what a JavaScript   *)
(* string is), binary data as sequences of bytes 0..255.                   *)
(***************************************************************************)
EXTENDS Integers, Sequences, FiniteSets, TLC

(***************************************************************************)
(* Bounds of the model.                                                    *)
(***************************************************************************)
\* longest html string of a request, in UTF-16 code units
MaxHtmlLen == 2

\* most requests the page may have in flight at once
MaxInFlight == 3

(***************************************************************************)
(* JavaScript values.  jsString carries a TLA+ string, jsText a sequence   *)
(* of code units; the two families are never compared with each other.     *)
(***************************************************************************)
Undefined == [t |-> "undefined", v |-> ""]

Str(s) == [t |-> "string", v |-> s]

NoText == [t |-> "undefined", v |-> <<>>]

NumberText == [t |-> "number", v |-> <<>>]

Text(s) == [t |-> "string", v |-> s]

\* JavaScript truthiness of a value that is undefined, a string or a
\* non-zero number: `!x` is true for undefined and for the empty string.
Truthy(x) == \/ x.t = "number"
             \/ x.t = "string" /\ x.v # ""

TruthyText(x) == \/ x.t = "number"
                 \/ x.t = "string" /\ Len(x.v) > 0

\* a || b
OrElse(a, b) == IF Truthy(a) THEN a ELSE b

(***************************************************************************)
(* UTF-8: Buffer.from(str) and buffer.toString('utf8').                    *)
(***************************************************************************)
IsHighSurrogate(c) == c >= 55296 /\ c <= 56319

IsLowSurrogate(c) == c >= 56320 /\ c <= 57343

\* UTF-8 bytes of one code point
Utf8OfCodePoint(cp) ==
  IF cp < 128 THEN <<cp>>
  ELSE IF cp < 2048 THEN <<192 + (cp \div 64), 128 + (cp % 64)>>
  ELSE IF cp < 65536
    THEN <<224 + (cp \div 4096), 128 + ((cp \div 64) % 64), 128 + (cp % 64)>>
  ELSE <<240 + (cp \div 262144), 128 + ((cp \div 4096) % 64),
         128 + ((cp \div 64) % 64), 128 + (cp % 64)>>

RECURSIVE Utf8From(_, _)
\* Buffer.from(s, 'utf8') from position i: a surrogate pair is one code
\* point, an unpaired surrogate is written as U+FFFD (EF BF BD).
Utf8From(s, i) ==
  IF i > Len(s) THEN <<>>
  ELSE IF IsHighSurrogate(s[i]) /\ i < Len(s) /\ IsLowSurrogate(s[i + 1])
    THEN Utf8OfCodePoint(65536 + (s[i] - 55296) * 1024 + (s[i + 1] - 56320))
           \o Utf8From(s, i + 2)
  ELSE IF IsHighSurrogate(s[i]) \/ IsLowSurrogate(s[i])
    THEN <<239, 191, 189>> \o Utf8From(s, i + 1)
  ELSE Utf8OfCodePoint(s[i]) \o Utf8From(s, i + 1)

BufferFrom(s) == Utf8From(s, 1)

\* UTF-16 code units of one code point
Utf16OfCodePoint(cp) ==
  IF cp < 65536 THEN <<cp>>
  ELSE <<55296 + ((cp - 65536) \div 1024), 56320 + ((cp - 65536) % 1024)>>

IsCont(b, i) == i <= Len(b) /\ b[i] >= 128 /\ b[i] < 192

RECURSIVE Utf8DecodeFrom(_, _)
\* buffer.toString('utf8') from position i; a byte that starts no
\* well-formed sequence decodes to U+FFFD.
Utf8DecodeFrom(b, i) ==
  IF i > Len(b) THEN <<>>
  ELSE IF b[i] < 128 THEN <<b[i]>> \o Utf8DecodeFrom(b, i + 1)
  ELSE IF b[i] >= 194 /\ b[i] < 224 /\ IsCont(b, i + 1)
    THEN <<(b[i] - 192) * 64 + (b[i + 1] - 128)>> \o Utf8DecodeFrom(b, i + 2)
  ELSE IF b[i] >= 224 /\ b[i] < 240 /\ IsCont(b, i + 1) /\ IsCont(b, i + 2)
    THEN <<(b[i] - 224) * 4096 + (b[i + 1] - 128) * 64 + (b[i + 2] - 128)>>
           \o Utf8DecodeFrom(b, i + 3)
  ELSE IF b[i] >= 240 /\ b[i] < 245 /\ IsCont(b, i + 1) /\ IsCont(b, i + 2)
          /\ IsCont(b, i + 3)
    THEN Utf16OfCodePoint((b[i] - 240) * 262144 + (b[i + 1] - 128) * 4096
                          + (b[i + 2] - 128) * 64 + (b[i + 3] - 128))
           \o Utf8DecodeFrom(b, i + 4)
  ELSE <<65533>> \o Utf8DecodeFrom(b, i + 1)

BufferToString(b) == Utf8DecodeFrom(b, 1)

(***************************************************************************)
(* Base64: buffer.toString('base64') and Buffer.from(text, 'base64').      *)
(* Base64 text is a sequence of character codes.                           *)
(***************************************************************************)
\* character code of the 6-bit value n: A-Z a-z 0-9 + /
B64Char(n) ==
  IF n < 26 THEN 65 + n
  ELSE IF n < 52 THEN 97 + (n - 26)
  ELSE IF n < 62 THEN 48 + (n - 52)
  ELSE IF n = 62 THEN 43 ELSE 47

\* 6-bit value of a base64 character code
B64Value(c) ==
  IF c >= 65 /\ c <= 90 THEN c - 65
  ELSE IF c >= 97 /\ c <= 122 THEN c - 97 + 26
  ELSE IF c >= 48 /\ c <= 57 THEN c - 48 + 52
  ELSE IF c = 43 THEN 62 ELSE 63

B64Pad == 61

RECURSIVE ToBase64From(_, _)
ToBase64From(b, i) ==
  IF i > Len(b) THEN <<>>
  ELSE IF i = Len(b)
    THEN <<B64Char(b[i] \div 4), B64Char((b[i] % 4) * 16), B64Pad, B64Pad>>
  ELSE IF i + 1 = Len(b)
    THEN <<B64Char(b[i] \div 4),
           B64Char((b[i] % 4) * 16 + (b[i + 1] \div 16)),
           B64Char((b[i + 1] % 16) * 4), B64Pad>>
  ELSE <<B64Char(b[i] \div 4),
         B64Char((b[i] % 4) * 16 + (b[i + 1] \div 16)),
         B64Char((b[i + 1] % 16) * 4 + (b[i + 2] \div 64)),
         B64Char(b[i + 2] % 64)>> \o ToBase64From(b, i + 3)

\* buffer.toString('base64')
ToBase64(b) == ToBase64From(b, 1)

RECURSIVE FromBase64From(_, _)
FromBase64From(t, i) ==
  IF i + 3 > Len(t) THEN <<>>
  ELSE LET a == B64Value(t[i])
           bb == B64Value(t[i + 1])
           c == B64Value(t[i + 2])
           d == B64Value(t[i + 3])
       IN IF t[i + 2] = B64Pad THEN <<a * 4 + (bb \div 16)>>
          ELSE IF t[i + 3] = B64Pad
            THEN <<a * 4 + (bb \div 16), (bb % 16) * 16 + (c \div 4)>>
          ELSE <<a * 4 + (bb \div 16), (bb % 16) * 16 + (c \div 4),
                 (c % 4) * 64 + d>> \o FromBase64From(t, i + 4)

\* Buffer.from(text, 'base64')
FromBase64(t) == FromBase64From(t, 1)

(***************************************************************************)
(* JSON text of a flat object whose members are strings that need no       *)
(* escaping: JSON.stringify(obj), JSON.stringify(obj, null, n), JSON.parse.*)
(* An object is the sequence of its <<key, value>> members.                *)
(***************************************************************************)
Quote == 34

Quoted(s) == <<Quote>> \o s \o <<Quote>>

RECURSIVE Spaces(_)
Spaces(n) == IF n = 0 THEN <<>> ELSE <<32>> \o Spaces(n - 1)

RECURSIVE StringifyMembers(_, _, _)
StringifyMembers(obj, i, indent) ==
  IF i > Len(obj) THEN <<>>
  ELSE (IF indent > 0 THEN <<10>> \o Spaces(indent) ELSE <<>>)
       \o Quoted(obj[i][1]) \o <<58>>
       \o (IF indent > 0 THEN <<32>> ELSE <<>>)
       \o Quoted(obj[i][2])
       \o (IF i < Len(obj) THEN <<44>> ELSE <<>>)
       \o StringifyMembers(obj, i + 1, indent)

\* JSON.stringify(obj, null, indent); indent = 0 is JSON.stringify(obj)
JSONStringify(obj, indent) ==
  IF Len(obj) = 0 THEN <<123, 125>>
  ELSE <<123>> \o StringifyMembers(obj, 1, indent)
       \o (IF indent > 0 THEN <<10>> ELSE <<>>) \o <<125>>

IsJsonSpace(c) == c \in {32, 10, 13, 9}

RECURSIVE SkipSpace(_, _)
SkipSpace(t, i) ==
  IF i <= Len(t) /\ IsJsonSpace(t[i]) THEN SkipSpace(t, i + 1) ELSE i

RECURSIVE StringEnd(_, _)
\* position of the closing quote of the string whose content starts at i
StringEnd(t, i) ==
  IF i > Len(t) \/ t[i] = Quote THEN i ELSE StringEnd(t, i + 1)

JSONSyntaxError == <<"SyntaxError">>

RECURSIVE ParseMembers(_, _, _)
\* members of an object from position i (just after `{` or `,`)
ParseMembers(t, i, acc) ==
  LET k0 == SkipSpace(t, i)
  IN IF k0 > Len(t) THEN JSONSyntaxError
     ELSE IF t[k0] = 125 /\ Len(acc) = 0
       THEN (IF SkipSpace(t, k0 + 1) > Len(t) THEN acc ELSE JSONSyntaxError)
     ELSE IF t[k0] # Quote THEN JSONSyntaxError
     ELSE LET k1 == StringEnd(t, k0 + 1)
              c == SkipSpace(t, k1 + 1)
              v0 == SkipSpace(t, c + 1)
              v1 == StringEnd(t, v0 + 1)
              e == SkipSpace(t, v1 + 1)
          IN IF v1 > Len(t) \/ e > Len(t) THEN JSONSyntaxError
             ELSE IF t[c] # 58 \/ t[v0] # Quote THEN JSONSyntaxError
             ELSE LET m == <<SubSeq(t, k0 + 1, k1 - 1),
                             SubSeq(t, v0 + 1, v1 - 1)>>
                  IN IF t[e] = 44 THEN ParseMembers(t, e + 1, Append(acc, m))
                     ELSE IF t[e] = 125 /\ SkipSpace(t, e + 1) > Len(t)
                       THEN Append(acc, m)
                     ELSE JSONSyntaxError

\* JSON.parse(text) of a flat object
JSONParse(t) ==
  LET s == SkipSpace(t, 1)
  IN IF s > Len(t) \/ t[s] # 123 THEN JSONSyntaxError
     ELSE ParseMembers(t, s + 1, <<>>)

(***************************************************************************)
(* The site files.                                                         *)
(***************************************************************************)
\* 'index.html'
IndexHtml == <<105, 110, 100, 101, 120, 46, 104, 116, 109, 108>>

\* 'package.json'
PackageJson == <<112, 97, 99, 107, 97, 103, 101, 46, 106, 115, 111, 110>>

\* { name: 'webmake-site', version: '1.0.0' }
Manifest ==
  << <<(<<110, 97, 109, 101>>),
       (<<119, 101, 98, 109, 97, 107, 101, 45, 115, 105, 116, 101>>)>>,
     <<(<<118, 101, 114, 115, 105, 111, 110>>),
       (<<49, 46, 48, 46, 48>>)>> >>

\* line 27: JSON.stringify({ name: 'webmake-site', version: '1.0.0' }, null, 2)
ManifestPretty == JSONStringify(Manifest, 2)

\* lines 88-89: JSON.stringify({ name: 'webmake-site', version: '1.0.0' })
ManifestCompact == JSONStringify(Manifest, 0)

(***************************************************************************)
(* JSZip.  A JSZip object is the sequence of its entries in insertion      *)
(* order; generateAsync (compression STORE, the default) writes, for each  *)
(* entry, a local record `PK 03 04, name length, data length, name, data`  *)
(* and closes with `PK 05 06, entry count`.  Time stamps, checksums and    *)
(* the central directory of the real container are left out: they carry    *)
(* no content of the files.                                                *)
(***************************************************************************)
NewJSZip == <<>>

\* zip.file(name, data): add the entry, replacing one of the same name
ZipFile(zip, name, data) ==
  IF \E i \in 1..Len(zip) : zip[i].name = name
    THEN [i \in 1..Len(zip) |->
            IF zip[i].name = name THEN [name |-> name, data |-> data]
            ELSE zip[i]]
  ELSE Append(zip, [name |-> name, data |-> data])

RECURSIVE ZipRecords(_, _)
ZipRecords(zip, i) ==
  IF i > Len(zip) THEN <<>>
  ELSE LET n == BufferFrom(zip[i].name)
           d == BufferFrom(zip[i].data)
       IN <<80, 75, 3, 4, Len(n), Len(d)>> \o n \o d \o ZipRecords(zip, i + 1)

\* zip.generateAsync({ type: 'nodebuffer' })
GenerateAsync(zip) == ZipRecords(zip, 1) \o <<80, 75, 5, 6, Len(zip)>>

RECURSIVE UnzipFrom(_, _)
\* the entries (name, bytes) of an archive, read from position i
UnzipFrom(b, i) ==
  IF i + 5 > Len(b) \/ SubSeq(b, i, i + 3) # <<80, 75, 3, 4>> THEN <<>>
  ELSE LET nl == b[i + 4]
           dl == b[i + 5]
       IN <<[name |-> BufferToString(SubSeq(b, i + 6, i + 5 + nl)),
             bytes |-> SubSeq(b, i + 6 + nl, i + 5 + nl + dl)]>>
          \o UnzipFrom(b, i + 6 + nl + dl)

\* JSZip.loadAsync(bytes)
LoadAsync(b) == UnzipFrom(b, 1)

(***************************************************************************)
(* sha1 (src/route.ts): the digest is an ideal hash, a token that is equal *)
(* for equal byte strings only; both branches compute the same digest.     *)
(***************************************************************************)
Digest(alg, data) == [alg |-> alg, of |-> data]

Hex(d) == [enc |-> "hex", digest |-> d]

sha1(data, hasSubtle) ==
  IF hasSubtle THEN Hex(Digest("SHA-1", data))
  ELSE Hex(Digest("SHA-1", data))

(***************************************************************************)
(* State.                                                                  *)
(***************************************************************************)
VARIABLES
  \* --- one invocation of POST (src/route.ts) ---
  pc,          \* stage of the invocation
  request,     \* the inbound request: is its body JSON, and html, provider
  env,         \* process.env, read-only
  zipped,      \* the archive bytes, <<>> before it is built
  sent,        \* the outbound provider calls made so far, in order
  received,    \* what fetch delivered, "none" before
  result,      \* the NextResponse returned, status 0 before
  thrown,      \* message of the exception caught at the boundary, or Undefined
  \* --- the DemoPage component (src/page.tsx) ---
  loading,
  edit,
  error,
  publishing,
  publishUrl,
  inflight     \* fetches awaiting their response, oldest first

serverVars == <<pc, request, env, zipped, sent, received, result, thrown>>

pageVars == <<loading, edit, error, publishing, publishUrl, inflight>>

vars == <<pc, request, env, zipped, sent, received, result, thrown,
          loading, edit, error, publishing, publishUrl, inflight>>

(***************************************************************************)
(* Inputs of an invocation.                                                *)
(***************************************************************************)
\* code units the html strings are made of: a, e-acute, euro sign, and the
\* two halves D83D DE00 of a surrogate pair
HtmlAlphabet == {97, 233, 8364, 55357, 56832}

HtmlStrings ==
  UNION {[1..n -> HtmlAlphabet] : n \in 1..MaxHtmlLen}

\* html of the request body: absent, '', a number, a non-empty string
HtmlValues ==
  {NoText, Text(<<>>), NumberText} \cup {Text(h) : h \in HtmlStrings}

ProviderValues ==
  {Undefined, Str(""), Str("netlify"), Str("vercel"), Str("bogus")}

EnvKeys == {"NETLIFY_TOKEN", "NETLIFY_SITE_ID", "VERCEL_TOKEN",
            "VERCEL_PROJECT_ID", "VERCEL_TEAM_ID"}

EnvValue(k) ==
  CASE k = "NETLIFY_TOKEN" -> Str("nf-token")
    [] k = "NETLIFY_SITE_ID" -> Str("nf-site")
    [] k = "VERCEL_TOKEN" -> Str("vc-token")
    [] k = "VERCEL_PROJECT_ID" -> Str("vc-project")
    [] k = "VERCEL_TEAM_ID" -> Str("vc-team")

Environments == [EnvKeys -> {"unset", "set"}]

EnvOf(e) == [k \in EnvKeys |-> IF e[k] = "set" THEN EnvValue(k) ELSE Undefined]

Requests ==
  {[json |-> FALSE, html |-> NoText, provider |-> Undefined]}
  \cup [json : {TRUE}, html : HtmlValues, provider : ProviderValues]

\* Date.now()
Clock == {1700000000, 1700000001}

(***************************************************************************)
(* What the provider endpoint may answer.                                  *)
(***************************************************************************)
UrlFieldValues(f) == {Undefined, Str(""), Str("https://" \o f \o ".example")}

\* parsed JSON bodies: null, or an object with any of the three url fields
JsonBodies ==
  {[isNull |-> TRUE, deploy_url |-> Undefined, url |-> Undefined,
    inspectorUrl |-> Undefined]}
  \cup [isNull : {FALSE}, deploy_url : UrlFieldValues("deploy_url"),
        url : UrlFieldValues("url"),
        inspectorUrl : UrlFieldValues("inspectorUrl")]

ErrorTexts == {"quota exceeded", ""}

\* fetch rejects; or resolves with a non-2xx status and a body text; or with
\* a 2xx status and a body that is JSON or not
Responses ==
  {[kind |-> "networkError"]}
  \cup [kind : {"response"}, ok : {FALSE}, status : {404, 500},
        text : ErrorTexts]
  \cup [kind : {"response"}, ok : {TRUE}, status : {200}, json : {FALSE}]
  \cup [kind : {"response"}, ok : {TRUE}, status : {200}, json : {TRUE},
        body : JsonBodies]

(***************************************************************************)
(* NextResponse.json(body, { status }).  A member that is undefined is     *)
(* dropped by JSON serialisation, so an absent member is an undefined one. *)
(***************************************************************************)
NoResult == [status |-> 0, error |-> Undefined, details |-> Undefined,
             message |-> Undefined, zipBase64 |-> NoText, url |-> Undefined]

NextResponseJson(status, err, details, message, zipBase64, url) ==
  [status |-> status, error |-> err, details |-> details,
   message |-> message, zipBase64 |-> zipBase64, url |-> url]

\* the catch block of POST
ServerError(msg) ==
  NextResponseJson(500, Str("Server error"), Str(msg), Undefined, NoText,
                   Undefined)

\* the three shapes of section 3: Success, Fallback, Failure
ResultKind(r) ==
  IF r.status = 0 THEN "None"
  ELSE IF r.status # 200 THEN "Failure"
  ELSE IF r.message # Undefined \/ r.zipBase64 # NoText THEN "Fallback"
  ELSE "Success"

(***************************************************************************)
(* POST, src/route.ts.                                                     *)
(***************************************************************************)
ServerInit ==
  /\ pc = "Received"
  /\ request \in Requests
  /\ env \in {EnvOf(e) : e \in Environments}
  /\ zipped = <<>>
  /\ sent = <<>>
  /\ received = [kind |-> "none"]
  /\ result = NoResult
  /\ thrown = Undefined

\* the exception leaves POST: no catch block
Catch_uncaught(msg) ==
  /\ thrown' = Str(msg)
  /\ result' = result
  /\ pc' = "Uncaught"

\* lines 115-118: an exception reaches the catch block
Catch(msg) ==
  /\ thrown' = Str(msg)
  /\ result' = ServerError(msg)
  /\ pc' = "FailureReturned"

\* !html && !provider
InvalidRequest_both(html, provider) ==
  ~TruthyText(html) /\ ~Truthy(provider)

\* line 19: !html || !provider
InvalidRequest(html, provider) ==
  ~TruthyText(html) \/ ~Truthy(provider)

\* lines 18-21: read the body, validate
ParseRequest ==
  /\ pc = "Received"
  /\ IF ~request.json
       THEN Catch("Unexpected token < in JSON at position 0")
     ELSE IF InvalidRequest(request.html, request.provider)
       THEN /\ result' = NextResponseJson(400, Str("Missing html or provider"),
                            Undefined, Undefined, NoText, Undefined)
            /\ pc' = "FailureReturned"
            /\ UNCHANGED thrown
     ELSE /\ pc' = "Validated"
          /\ UNCHANGED <<result, thrown>>
  /\ UNCHANGED <<request, env, zipped, sent, received>>
  /\ UNCHANGED pageVars

\* the manifest is written under the name of the page
SiteArchive_overwrites(html) ==
  GenerateAsync(ZipFile(ZipFile(NewJSZip, IndexHtml, html),
                        IndexHtml, ManifestPretty))

\* lines 24-28: the archive of the site
SiteArchive(html) ==
  GenerateAsync(ZipFile(ZipFile(NewJSZip, IndexHtml, html),
                        PackageJson, ManifestPretty))

\* lines 24-28: build the archive; JSZip rejects data that is not a string
\* (or binary) when the archive is generated
BuildArchive ==
  /\ pc = "Validated"
  /\ IF request.html.t # "string"
       THEN /\ Catch("Can't read the data of 'index.html'. Is it in a supported JavaScript type (String, Blob, ArrayBuffer, etc) ?")
            /\ UNCHANGED zipped
     ELSE /\ zipped' = SiteArchive(request.html.v)
          /\ pc' = "ArchiveBuilt"
          /\ UNCHANGED <<result, thrown>>
  /\ UNCHANGED <<request, env, sent, received>>
  /\ UNCHANGED pageVars

\* !token && !id
MissingCredentials_both(token, id) == ~Truthy(token) /\ ~Truthy(id)

\* lines 34 and 69: !token || !siteId, !token || !projectId
MissingCredentials(token, id) == ~Truthy(token) \/ ~Truthy(id)

\* lines 36-40 and 70-74
Fallback(msg) ==
  NextResponseJson(200, Undefined, Undefined, Str(msg),
                   Text(ToBase64(zipped)), Undefined)

\* lines 31-57: the netlify branch up to the outbound call
PublishNetlify ==
  /\ pc = "ArchiveBuilt"
  /\ request.provider = Str("netlify")
  /\ LET token == env["NETLIFY_TOKEN"]
         siteId == env["NETLIFY_SITE_ID"]
     IN IF MissingCredentials(token, siteId)
          THEN /\ result' = Fallback("NETLIFY_TOKEN and NETLIFY_SITE_ID must be set as environment variables to deploy.")
               /\ pc' = "FallbackReturned"
               /\ UNCHANGED sent
        ELSE /\ sent' = Append(sent,
                   [provider |-> "netlify",
                    url |-> "https://api.netlify.com/api/v1/sites/"
                              \o siteId.v \o "/deploys",
                    method |-> "POST",
                    authorization |-> "Bearer " \o token.v,
                    body |-> [field |-> "file", content |-> zipped,
                              filename |-> "site.zip",
                              contentType |-> "application/zip"]])
             /\ pc' = "RequestSent"
             /\ UNCHANGED result
  /\ UNCHANGED <<request, env, zipped, received, thrown>>
  /\ UNCHANGED pageVars

\* result.deploy_url || result.url
NetlifyUrl(body) == OrElse(body.deploy_url, body.url)

\* result.url || result.inspectorUrl
VercelUrl(body) == OrElse(body.url, body.inspectorUrl)

\* the provider's status is passed on
DeployFailed_status(errorLabel, r) ==
  NextResponseJson(r.status, Str(errorLabel), Str(r.text), Undefined, NoText,
                   Undefined)

\* lines 59-60 and 108-109
DeployFailed(errorLabel, r) ==
  NextResponseJson(500, Str(errorLabel), Str(r.text), Undefined, NoText,
                   Undefined)

\* what follows `await fetch(...)`: lines 58-63 for netlify, lines 107-112
\* for vercel
HandleResponse(r, errorLabel, isNetlify) ==
  /\ received' = r
  /\ IF r.kind = "networkError" THEN Catch("fetch failed")
     ELSE IF ~r.ok
       THEN /\ result' = DeployFailed(errorLabel, r)
            /\ pc' = "FailureReturned"
            /\ UNCHANGED thrown
     ELSE IF ~r.json
       THEN Catch("Unexpected token < in JSON at position 0")
     ELSE IF r.body.isNull
       THEN Catch("Cannot read properties of null")
     ELSE /\ result' = NextResponseJson(200, Undefined, Undefined, Undefined,
                          NoText,
                          IF isNetlify THEN NetlifyUrl(r.body)
                          ELSE VercelUrl(r.body))
          /\ pc' = "SuccessReturned"
          /\ UNCHANGED thrown

\* a failed call is sent again
NetlifyResponse_retries ==
  /\ pc = "RequestSent"
  /\ request.provider = Str("netlify")
  /\ \E r \in Responses :
       IF r.kind = "networkError"
         THEN /\ sent' = Append(sent, sent[Len(sent)])
              /\ received' = r
              /\ UNCHANGED <<pc, result, thrown>>
       ELSE /\ HandleResponse(r, "Netlify deploy failed", TRUE)
            /\ UNCHANGED sent
  /\ UNCHANGED <<request, env, zipped>>
  /\ UNCHANGED pageVars

\* lines 50-63: the netlify call returns or throws
NetlifyResponse ==
  /\ pc = "RequestSent"
  /\ request.provider = Str("netlify")
  /\ \E r \in Responses : HandleResponse(r, "Netlify deploy failed", TRUE)
  /\ UNCHANGED <<request, env, zipped, sent>>
  /\ UNCHANGED pageVars

\* line 88: Buffer.from(JSON.stringify({ ... })).toString('base64')
ManifestData == ToBase64(BufferFrom(ManifestCompact))

\* line 89: Buffer.from(JSON.stringify({ ... })), the argument of sha1
ManifestBuffer == BufferFrom(ManifestCompact)

\* the sha of index.html is reused for package.json
VercelBody_oneSha(html, projectId, teamId, now, hasSubtle) ==
  LET data == BufferFrom(html)
      sha == sha1(data, hasSubtle)
      files == <<[file |-> "index.html", data |-> ToBase64(data), sha |-> sha],
                 [file |-> "package.json",
                  data |-> ManifestData,
                  sha |-> sha]>>
      body == [name |-> <<"webmake-site-", now>>, project |-> projectId.v,
               files |-> files, target |-> "production"]
  IN IF Truthy(teamId) THEN body @@ [teamId |-> teamId.v] ELSE body

\* lines 78-98: the deployment payload
VercelBody(html, projectId, teamId, now, hasSubtle) ==
  LET data == BufferFrom(html)
      sha == sha1(data, hasSubtle)
      files == <<[file |-> "index.html", data |-> ToBase64(data), sha |-> sha],
                 [file |-> "package.json",
                  data |-> ManifestData,
                  sha |-> sha1(ManifestBuffer, hasSubtle)]>>
      body == [name |-> <<"webmake-site-", now>>, project |-> projectId.v,
               files |-> files, target |-> "production"]
  IN IF Truthy(teamId) THEN body @@ [teamId |-> teamId.v] ELSE body

\* lines 65-106: the vercel branch up to the outbound call
PublishVercel ==
  /\ pc = "ArchiveBuilt"
  /\ request.provider = Str("vercel")
  /\ LET token == env["VERCEL_TOKEN"]
         projectId == env["VERCEL_PROJECT_ID"]
         teamId == env["VERCEL_TEAM_ID"]
     IN IF MissingCredentials(token, projectId)
          THEN /\ result' = Fallback("VERCEL_TOKEN and VERCEL_PROJECT_ID must be set as environment variables to deploy.")
               /\ pc' = "FallbackReturned"
               /\ UNCHANGED sent
        ELSE /\ \E now \in Clock, hasSubtle \in BOOLEAN :
                  sent' = Append(sent,
                    [provider |-> "vercel",
                     url |-> "https://api.vercel.com/v13/deployments",
                     method |-> "POST",
                     authorization |-> "Bearer " \o token.v,
                     body |-> VercelBody(request.html.v, projectId, teamId,
                                         now, hasSubtle)])
             /\ pc' = "RequestSent"
             /\ UNCHANGED result
  /\ UNCHANGED <<request, env, zipped, received, thrown>>
  /\ UNCHANGED pageVars

\* lines 99-112: the vercel call returns or throws
VercelResponse ==
  /\ pc = "RequestSent"
  /\ request.provider = Str("vercel")
  /\ \E r \in Responses : HandleResponse(r, "Vercel deploy failed", FALSE)
  /\ UNCHANGED <<request, env, zipped, sent>>
  /\ UNCHANGED pageVars

\* an unknown provider is reported as a server error
UnknownProviderResponse_500 ==
  NextResponseJson(500, Str("Unknown provider"), Undefined, Undefined, NoText,
                   Undefined)

\* line 114
UnknownProviderResponse ==
  NextResponseJson(400, Str("Unknown provider"), Undefined, Undefined, NoText,
                   Undefined)

\* line 114: neither branch returned
UnknownProvider ==
  /\ pc = "ArchiveBuilt"
  /\ request.provider # Str("netlify")
  /\ request.provider # Str("vercel")
  /\ result' = UnknownProviderResponse
  /\ pc' = "FailureReturned"
  /\ UNCHANGED <<request, env, zipped, sent, received, thrown>>
  /\ UNCHANGED pageVars

(***************************************************************************)
(* DemoPage, src/page.tsx.  A click handler runs to its first await in one *)
(* step and React renders before the next event; the rest of the handler   *)
(* runs when the response of its fetch arrives.                            *)
(***************************************************************************)
Null == "null"

\* GenResult values the generate endpoint may return
Contents == {"content-1", "content-2"}

\* buildHtml(data)
buildHtml(data) == <<"<!doctype html>", data>>

PageProviders == {"vercel", "netlify"}

\* what /api/publish may answer: fetch or res.json() throws; a non-2xx
\* status with an error member; a 2xx status whose body has a url or none
PublishAnswers ==
  {[kind |-> "throws", ok |-> FALSE, error |-> Null, url |-> Null],
   [kind |-> "response", ok |-> FALSE, error |-> "Server error", url |-> Null],
   [kind |-> "response", ok |-> TRUE, error |-> Null, url |-> Null]}
  \cup {[kind |-> "response", ok |-> TRUE, error |-> Null,
         url |-> "https://" \o p \o ".example"] : p \in PageProviders}

\* what /api/generate may answer
GenerateAnswers ==
  {[kind |-> "throws", ok |-> FALSE, data |-> Null],
   [kind |-> "response", ok |-> FALSE, data |-> Null]}
  \cup {[kind |-> "response", ok |-> TRUE, data |-> c] : c \in Contents}

PageInit ==
  /\ loading = FALSE
  /\ edit = Null
  /\ error = Null
  /\ publishing = Null
  /\ publishUrl = Null
  /\ inflight = <<>>

\* the seq without its i-th element
RemoveAt(seq, i) == SubSeq(seq, 1, i - 1) \o SubSeq(seq, i + 1, Len(seq))

\* a call of generate or publish starts: the fetches already in flight are
\* no longer the latest call.  `latest` records the order of the calls, the
\* page itself keeps no such mark.
Superseded(fetches) ==
  [i \in 1..Len(fetches) |-> [fetches[i] EXCEPT !.latest = FALSE]]

\* lines 46-55 and 181-186: a click on an enabled generate button
ClickGenerate ==
  /\ ~loading
  /\ Len(inflight) < MaxInFlight
  /\ loading' = TRUE
  /\ error' = Null
  /\ publishUrl' = Null
  /\ inflight' = Append(Superseded(inflight),
                        [call |-> "generate", provider |-> Null,
                         html |-> <<>>, latest |-> TRUE])
  /\ UNCHANGED <<edit, publishing>>
  /\ UNCHANGED serverVars

\* lines 56-63 and 40-44: the generate fetch settles
GenerateSettles ==
  /\ \E i \in 1..Len(inflight) :
       /\ inflight[i].call = "generate"
       /\ inflight' = RemoveAt(inflight, i)
       /\ \E a \in GenerateAnswers :
            IF a.kind = "throws"
              THEN /\ error' = "fetch failed"
                   /\ UNCHANGED edit
            ELSE IF ~a.ok
              THEN /\ error' = "Generation failed (500)"
                   /\ UNCHANGED edit
            ELSE /\ edit' = a.data
                 /\ UNCHANGED error
  /\ loading' = FALSE
  /\ UNCHANGED <<publishing, publishUrl>>
  /\ UNCHANGED serverVars

\* lines 199-243: the user edits a field of the preview
EditField ==
  /\ edit # Null
  /\ \E c \in Contents : edit' = c
  /\ UNCHANGED <<loading, error, publishing, publishUrl, inflight>>
  /\ UNCHANGED serverVars

\* disabled={publishing === provider}, lines 282 and 289; the buttons are
\* rendered only when edit is set (line 194)
PublishEnabled(provider) == edit # Null /\ publishing # provider

\* lines 128-139: a click on an enabled publish button
ClickPublish(provider) ==
  /\ PublishEnabled(provider)
  /\ Len(inflight) < MaxInFlight
  /\ publishing' = provider
  /\ error' = Null
  /\ publishUrl' = Null
  /\ inflight' = Append(Superseded(inflight),
                        [call |-> "publish", provider |-> provider,
                         html |-> buildHtml(edit), latest |-> TRUE])
  /\ UNCHANGED <<loading, edit>>
  /\ UNCHANGED serverVars

\* lines 140-147: a publish fetch settles
PublishSettles ==
  /\ \E i \in 1..Len(inflight) :
       /\ inflight[i].call = "publish"
       /\ inflight' = RemoveAt(inflight, i)
       /\ \E a \in PublishAnswers :
            IF a.kind = "throws"
              THEN /\ error' = "Publishing error."
                   /\ UNCHANGED publishUrl
            ELSE IF ~a.ok
              THEN /\ error' = a.error
                   /\ UNCHANGED publishUrl
            ELSE /\ publishUrl' = a.url
                 /\ UNCHANGED error
  /\ publishing' = Null
  /\ UNCHANGED <<loading, edit>>
  /\ UNCHANGED serverVars

(***************************************************************************)
(* Specifications.                                                         *)
(***************************************************************************)
Init == ServerInit /\ PageInit

Next ==
  \/ ParseRequest
  \/ BuildArchive
  \/ PublishNetlify
  \/ NetlifyResponse
  \/ PublishVercel
  \/ VercelResponse
  \/ UnknownProvider

\* invocations of POST
Spec == Init /\ [][Next]_vars

\* the server is idle: one fixed request, never handled
PageServerIdle ==
  /\ pc = "Received"
  /\ request = [json |-> FALSE, html |-> NoText, provider |-> Undefined]
  /\ env = EnvOf([k \in EnvKeys |-> "unset"])
  /\ zipped = <<>>
  /\ sent = <<>>
  /\ received = [kind |-> "none"]
  /\ result = NoResult
  /\ thrown = Undefined

InitPage == PageServerIdle /\ PageInit

NextPage ==
  \/ ClickGenerate
  \/ GenerateSettles
  \/ EditField
  \/ \E provider \in PageProviders : ClickPublish(provider)
  \/ PublishSettles

\* the page under clicks and response arrivals in any order
PageSpec == InitPage /\ [][NextPage]_vars

(***************************************************************************)
(* Properties of an invocation of POST.                                    *)
(***************************************************************************)
Terminal == {"FallbackReturned", "SuccessReturned", "FailureReturned"}

\* a body with a non-empty html string and some provider
ValidRequest ==
  /\ request.json
  /\ request.html.t = "string"
  /\ Len(request.html.v) > 0
  /\ Truthy(request.provider)

KnownProvider == request.provider \in {Str("netlify"), Str("vercel")}

TokenKey == IF request.provider = Str("netlify") THEN "NETLIFY_TOKEN"
            ELSE "VERCEL_TOKEN"

IdKey == IF request.provider = Str("netlify") THEN "NETLIFY_SITE_ID"
         ELSE "VERCEL_PROJECT_ID"

\* the configuration of the selected provider lacks its token or its id
CredentialsUnset == env[TokenKey] = Undefined \/ env[IdKey] = Undefined

CredentialsPresent == Truthy(env[TokenKey]) /\ Truthy(env[IdKey])

\* C1: a valid request to netlify or vercel whose token or site/project id
\* is unset never leaves the path Received, Validated, ArchiveBuilt,
\* FallbackReturned (so it is never a Failure or a Success), and what it
\* returns is HTTP 200 with the message naming the two keys of the selected
\* provider and a non-empty base64 archive, whatever the other provider's
\* credentials and VERCEL_TEAM_ID are.
C1_MissingCredentialsFallBack ==
  (ValidRequest /\ KnownProvider /\ CredentialsUnset) =>
    /\ pc \in {"Received", "Validated", "ArchiveBuilt", "FallbackReturned"}
    /\ sent = <<>>
    /\ pc = "FallbackReturned" =>
         /\ result.status = 200
         /\ ResultKind(result) = "Fallback"
         /\ result.message =
              Str(TokenKey \o " and " \o IdKey
                    \o " must be set as environment variables to deploy.")
         /\ result.zipBase64.t = "string"
         /\ Len(result.zipBase64.v) > 0
         /\ result.error = Undefined
         /\ result.url = Undefined

\* a vercel request fell back although netlify and the team id are configured
C1_Witness ==
  /\ pc = "FallbackReturned"
  /\ request.provider = Str("vercel")
  /\ env["VERCEL_TOKEN"] # Undefined
  /\ env["VERCEL_PROJECT_ID"] = Undefined
  /\ env["NETLIFY_TOKEN"] # Undefined
  /\ env["NETLIFY_SITE_ID"] # Undefined
  /\ env["VERCEL_TEAM_ID"] # Undefined

\* C2: the number of outbound provider calls is never more than one; it is
\* one only for a valid request to netlify or vercel with that provider's
\* credentials present, and then it is one once the invocation has
\* returned; a call that failed (fetch threw, or a non-2xx answer) is not
\* sent again: the invocation has returned a Failure.
C2_OneCallOrNone ==
  /\ Len(sent) <= 1
  /\ Len(sent) = 1 => (ValidRequest /\ KnownProvider /\ CredentialsPresent)
  /\ (pc \in Terminal /\ ValidRequest /\ KnownProvider /\ CredentialsPresent)
       => Len(sent) = 1
  /\ (received.kind = "networkError"
        \/ (received.kind = "response" /\ ~received.ok))
       => (pc = "FailureReturned" /\ Len(sent) = 1
             /\ ResultKind(result) = "Failure")

\* the one call of a netlify invocation failed and was reported
C2_Witness ==
  /\ pc = "FailureReturned"
  /\ received.kind = "networkError"
  /\ request.provider = Str("netlify")
  /\ Len(sent) = 1

\* C3: when the provider endpoint has answered with a non-2xx status, the
\* invocation has returned a Failure with HTTP status 500 whose details are
\* the text of the provider's response body, for netlify and for vercel.
C3_DeployErrorCarriesBody ==
  (received.kind = "response" /\ ~received.ok) =>
    /\ pc = "FailureReturned"
    /\ ResultKind(result) = "Failure"
    /\ result.status = 500
    /\ result.details = Str(received.text)
    /\ result.error = (IF request.provider = Str("netlify")
                         THEN Str("Netlify deploy failed")
                       ELSE Str("Vercel deploy failed"))
    /\ result.url = Undefined
    /\ result.zipBase64 = NoText

\* vercel answered 404 "quota exceeded"
C3_Witness ==
  /\ pc = "FailureReturned"
  /\ request.provider = Str("vercel")
  /\ received.kind = "response"
  /\ ~received.ok
  /\ received.status = 404
  /\ received.text = "quota exceeded"
  /\ result.details = Str("quota exceeded")

\* C4: when the provider endpoint has answered 2xx with a JSON body, the
\* invocation has returned a Success whose url is a string: for netlify
\* deploy_url, or url when deploy_url is absent; for vercel url, or
\* inspectorUrl when url is absent; and this for every combination of
\* present and absent fields of the provider's response.
C4_SuccessCarriesUrlString ==
  (received.kind = "response" /\ received.ok /\ received.json) =>
    /\ pc = "SuccessReturned"
    /\ ResultKind(result) = "Success"
    /\ result.url.t = "string"
    /\ ~received.body.isNull
    /\ result.url =
         (IF request.provider = Str("netlify")
            THEN (IF received.body.deploy_url # Undefined
                    THEN received.body.deploy_url ELSE received.body.url)
          ELSE (IF received.body.url # Undefined
                  THEN received.body.url ELSE received.body.inspectorUrl))

\* C5: a request whose body lacks html or provider (absent or empty) is never
\* anywhere but Received or FailureReturned, and what it returns is the
\* InvalidRequest failure with HTTP 400: no archive, no url, no outbound
\* call, whatever the provider and the credentials are.
C5_InvalidRequestFirst ==
  (request.json
     /\ (request.html \in {NoText, Text(<<>>)}
           \/ request.provider \in {Undefined, Str("")})) =>
    /\ pc \in {"Received", "FailureReturned"}
    /\ sent = <<>>
    /\ zipped = <<>>
    /\ pc = "FailureReturned" =>
         /\ result.status = 400
         /\ result.error = Str("Missing html or provider")
         /\ result.message = Undefined
         /\ result.zipBase64 = NoText
         /\ result.url = Undefined
         /\ thrown = Undefined

\* html is missing, the provider is netlify and its credentials are unset:
\* without the validation the request would fall back
C5_Witness ==
  /\ pc = "FailureReturned"
  /\ request.json
  /\ request.html = NoText
  /\ request.provider = Str("netlify")
  /\ env["NETLIFY_TOKEN"] = Undefined
  /\ result.status = 400

\* C6: a request with a non-empty html string and a provider other than
\* netlify and vercel makes no outbound call, and what it returns is the
\* UnknownProvider failure with HTTP 400 and no archive, whichever
\* credentials are configured.
C6_UnknownProviderRejected ==
  (ValidRequest /\ ~KnownProvider) =>
    /\ pc \in {"Received", "Validated", "ArchiveBuilt", "FailureReturned"}
    /\ sent = <<>>
    /\ pc = "FailureReturned" =>
         /\ result.status = 400
         /\ result.error = Str("Unknown provider")
         /\ result.message = Undefined
         /\ result.zipBase64 = NoText
         /\ result.url = Undefined
         /\ thrown = Undefined

\* provider "bogus" was rejected with every credential configured
C6_Witness ==
  /\ pc = "FailureReturned"
  /\ request.provider = Str("bogus")
  /\ request.html.t = "string"
  /\ result.status = 400
  /\ \A k \in EnvKeys : env[k] # Undefined

\* an exception is raised while the request is processed: the request body
\* is not JSON, the archive cannot be built from the html, fetch throws, the
\* body of a 2xx answer is not JSON or is null
ExceptionRaised ==
  \/ ~request.json
  \/ (~InvalidRequest(request.html, request.provider)
        /\ request.html.t # "string")
  \/ received.kind = "networkError"
  \/ (received.kind = "response" /\ received.ok
        /\ (~received.json \/ received.body.isNull))

\* the invocation has returned, and the stage it ended in is the shape of
\* what it returned; an exception was turned into the 500 response that
\* carries its message
ReturnedProperly ==
  pc \in Terminal =>
    /\ pc = "FallbackReturned" <=> ResultKind(result) = "Fallback"
    /\ pc = "SuccessReturned" <=> ResultKind(result) = "Success"
    /\ pc = "FailureReturned" <=> ResultKind(result) = "Failure"
    /\ ExceptionRaised <=> thrown # Undefined
    /\ ExceptionRaised =>
         /\ pc = "FailureReturned"
         /\ result.status = 500
         /\ result.error = Str("Server error")
         /\ result.details = thrown

\* how far an invocation has come
StageRank(stage) ==
  CASE stage = "Received" -> 0
    [] stage = "Validated" -> 1
    [] stage = "ArchiveBuilt" -> 2
    [] stage = "RequestSent" -> 3
    [] OTHER -> 4

\* some action of Next can be taken: the guards of ParseRequest,
\* BuildArchive, of the three branches on the provider (one of which always
\* applies) and of the two response actions; what follows the guard in each
\* action is an assignment, which is always possible
CanStep ==
  \/ pc = "Received"
  \/ pc = "Validated"
  \/ pc = "ArchiveBuilt"
       /\ (request.provider = Str("netlify")
             \/ request.provider = Str("vercel")
             \/ (request.provider # Str("netlify")
                   /\ request.provider # Str("vercel")))
  \/ pc = "RequestSent"
       /\ (request.provider = Str("netlify")
             \/ request.provider = Str("vercel"))
       /\ Responses # {}

\* C7: every invocation ends in one of FallbackReturned, SuccessReturned,
\* FailureReturned and takes no step from there: the stage is never outside
\* the state machine (no exception leaves the handler), an invocation that
\* has not returned can take a step (at RequestSent: the provider call
\* returns or throws), every step moves it to a later stage, and no step
\* starts from a terminal stage; what it returns has the shape of the stage
\* it ended in, and an exception raised on the way has become a Failure with
\* HTTP 500 that carries the exception's message.
C7_TerminatesCaught ==
  /\ [](pc \in {"Received", "Validated", "ArchiveBuilt", "RequestSent"}
                 \cup Terminal)
  /\ [](pc \notin Terminal => CanStep)
  /\ [][StageRank(pc') > StageRank(pc)]_vars
  /\ [][pc \notin Terminal]_vars
  /\ []ReturnedProperly

\* the body of vercel's 2xx answer was not JSON; the exception was caught
C7_Witness ==
  /\ pc = "FailureReturned"
  /\ received.kind = "response"
  /\ received.ok
  /\ ~received.json
  /\ thrown # Undefined
  /\ result.status = 500
  /\ result.details = thrown

\* no unpaired surrogate in the string, from position i
RECURSIVE WellFormedFrom(_, _)
WellFormedFrom(s, i) ==
  IF i > Len(s) THEN TRUE
  ELSE IF IsHighSurrogate(s[i])
    THEN i < Len(s) /\ IsLowSurrogate(s[i + 1]) /\ WellFormedFrom(s, i + 2)
  ELSE ~IsLowSurrogate(s[i]) /\ WellFormedFrom(s, i + 1)

\* a string of Unicode scalar values
WellFormed(s) == WellFormedFrom(s, 1)

\* the entries of the archive that the caller decodes from zipBase64
FallbackEntries == LoadAsync(FromBase64(result.zipBase64.v))

\* exactly index.html and package.json, the latter parsing to the manifest
TwoEntries ==
  /\ Len(FallbackEntries) = 2
  /\ FallbackEntries[1].name = IndexHtml
  /\ FallbackEntries[2].name = PackageJson
  /\ JSONParse(BufferToString(FallbackEntries[2].bytes)) = Manifest

\* the text of the index.html entry is the html of the request
HtmlRoundTrips ==
  BufferToString(FallbackEntries[1].bytes) = request.html.v

\* C8 as stated: for every non-empty html, decoding zipBase64 of a Fallback
\* result and extracting index.html yields exactly the html of the request,
\* and the archive has exactly the entries index.html and package.json, the
\* latter decoding to {"name":"webmake-site","version":"1.0.0"}.
C8_AnyHtmlRoundTrips ==
  pc = "FallbackReturned" => (TwoEntries /\ HtmlRoundTrips)

\* C8, amended: the archive of every Fallback result has exactly the entries
\* index.html and package.json, the latter decoding to the manifest; and
\* index.html decodes to exactly the html of the request when that html has
\* no unpaired surrogate code unit.
C8_WellFormedHtmlRoundTrips ==
  pc = "FallbackReturned" =>
    /\ TwoEntries
    /\ WellFormed(request.html.v) => HtmlRoundTrips

\* a fallback whose html is e-acute followed by a surrogate pair
C8_Witness ==
  /\ pc = "FallbackReturned"
  /\ \E h \in HtmlStrings :
       /\ request.html.v = h
       /\ WellFormed(h)
       /\ \E i \in 1..Len(h) : IsHighSurrogate(h[i])
  /\ HtmlRoundTrips

\* hex SHA-1 digest of a byte string
Sha1Hex(bytes) == Hex(Digest("SHA-1", bytes))

InFlightTo(provider) ==
  Cardinality({i \in 1..Len(inflight) :
                 inflight[i].call = "publish"
                   /\ inflight[i].provider = provider})

\* C10: for each provider P, while a publish request to P is in flight the
\* publishing flag equals P, so the button 'Publish to P' is disabled; hence
\* two publish requests to the same provider are never in flight at the
\* same time, under any interleaving of clicks and response arrivals.
C10_NoDoublePublish ==
  \A provider \in PageProviders :
    /\ InFlightTo(provider) > 0 =>
         (publishing = provider /\ ~PublishEnabled(provider))
    /\ InFlightTo(provider) <= 1

\* the fetch that settles in this step is the i-th one in flight
Settles(i) ==
  /\ i \in 1..Len(inflight)
  /\ inflight' = RemoveAt(inflight, i)

\* C11: the displayed publishUrl is never stale: once a generate() or
\* publish() call has started and cleared publishUrl, a response to a publish
\* request started before that call never sets publishUrl; only the response
\* of the latest call does, under any interleaving of in-flight generate and
\* publish requests.
C11_PublishUrlNeverStale ==
  [][(publishUrl' # publishUrl /\ publishUrl' # Null) =>
       \E i \in 1..Len(inflight) :
         /\ Settles(i)
         /\ inflight[i].call = "publish"
         /\ inflight[i].latest]_vars

====
